---- MODULE Spec2Model ----
(***************************************************************************)
(* The subscription lifecycle driven by DataMeshConsumer                   *)
(* (src/src/data_mesh_util/DataMeshConsumer.py): request_access_to_product,*)
(* finalize_subscription and delete_subscription, run against the          *)
(* subscription store (SubscriberTracker), the consumer's catalog and the  *)
(* resource shares (ApiAutomator).  The handlers are translated from the   *)
(* consumer; the collaborators, which the consumer only calls, follow      *)
(* their contract in the design specification, sections 3, 4.1, 4.2, 6.    *)
(***************************************************************************)
EXTENDS Integers, Sequences, FiniteSets, TLC

(* ------------------------------ bounds -------------------------------- *)

\* Number of subscription records the store may hold.
MaxSubs == 1
\* Number of resource shares the owner attaches to one subscription.
MaxShares == 1

(* ----------------------------- constants ------------------------------ *)

STATUS_REQUESTED == "REQUESTED"
STATUS_ACTIVE == "ACTIVE"
STATUS_IMPORTED == "IMPORTED"
STATUS_DELETED == "DELETED"

\* Accounts a DataMeshConsumer may be constructed in (its _current_account).
Accounts == {"222222222222", "333333333333"}
\* The producer account and its data product.
OwnerAccount == "111111111111"
DatabaseName == "sales"
\* Tables the mesh's read-only role can describe, and one it cannot.
VisibleTables == {"orders"}
TableNames == VisibleTables \cup {"ghost"}
Reasons == {"no longer needed", "wrong product"}

\* The tables argument: a list, or a bare table name.
ListArgs == {<<>>, <<"orders">>, <<"ghost">>, <<"orders", "ghost">>, <<"ghost", "orders">>}
TableArgs == [kind : {"list"}, val : ListArgs] \cup [kind : {"scalar"}, val : TableNames]
PermArgs == {[kind |-> "list", val |-> <<"SELECT">>], [kind |-> "scalar", val |-> "SELECT"]}

\* Remote failures a call may meet.
FinalizeFaults == {"none", "accept", "write"}
DeleteFaults == {"none", "leave"}

Ids == 1 .. MaxSubs
ShareKeys == 1 .. MaxShares
Arns == Ids \X ShareKeys
NoShare == [state |-> "NONE", receiver |-> "-"]
NoReason == "-"

Range(s) == {s[i] : i \in DOMAIN s}

(* ------------------------------- state -------------------------------- *)

VARIABLES
    store,      \* SubscriberTracker: sequence of subscription records, id = index
    databases,  \* consumer catalogs: account -> the databases created in it, in order
    ram,        \* resource shares: arn -> [state, receiver]
    threads     \* calls in progress: thread -> [op, caller, id, pc, subscription, ...]

vars == <<store, databases, ram, threads>>

\* What one handler invocation reports besides the state it leaves:
\* op, caller, id: the handler, the account it ran in, the subscription id (0: none);
\* tables, reason: its normalised arguments; fault: the remote failure it met;
\* result: "ok" or the error raised; calls: the collaborator calls made, in order;
\* status0: the record's status as read by get_subscription;
\* accepted, active, not_found: what accept_lf_resource_shares returned.
NoCall == [op |-> "none", caller |-> "-", id |-> 0, tables |-> <<>>, reason |-> "-",
           fault |-> "none", result |-> "-", calls |-> <<>>, status0 |-> "-",
           accepted |-> {}, active |-> {}, not_found |-> {}]

\* Two calls may be in progress at once, each in its own process.
Threads == {"t1", "t2"}

(* ----------------------- utils (data_mesh_util.lib) -------------------- *)

\* utils.ensure_list: a list stays, anything else becomes a one-element list.
ensure_list(v) == IF v.kind = "list" THEN v.val ELSE <<v.val>>

(* ------------------ SubscriberTracker (the store, 4.1) ----------------- *)

\* The tuple that identifies an equivalent request; tables match as a set.
RequestKey(owner, principal, db, tables) == <<owner, principal, db, Range(tables)>>
RecordKey(r) == RequestKey(r.ownerAccountId, r.subscriberPrincipal, r.databaseName, r.tables)

\* Variant: the store never reports a conflict.
create_conflict_unchecked(st, owner, db, tables, principal) == FALSE

create_conflict(st, owner, db, tables, principal) ==
    \E i \in DOMAIN st : /\ st[i].status = STATUS_REQUESTED
                         /\ RecordKey(st[i]) = RequestKey(owner, principal, db, tables)

NewRecord(owner, db, tables, principal, grants) ==
    [ownerAccountId |-> owner, subscriberPrincipal |-> principal,
     databaseName |-> db, tables |-> tables, requestedGrants |-> grants,
     status |-> STATUS_REQUESTED, ramShares |-> <<>>, deletionReason |-> NoReason]

\* create(record) -> id: Conflict when an equivalent pending request exists.
create_subscription_request(st, owner, db, tables, principal, grants) ==
    IF create_conflict(st, owner, db, tables, principal)
    THEN [ok |-> FALSE, store |-> st, id |-> 0]
    ELSE [ok |-> TRUE, store |-> Append(st, NewRecord(owner, db, tables, principal, grants)),
          id |-> Len(st) + 1]

\* updateStatus guarded by the expected prior status ACTIVE.
mark_subscription_as_imported(st, id) ==
    IF st[id].status = STATUS_ACTIVE
    THEN [ok |-> TRUE, store |-> [st EXCEPT ![id].status = STATUS_IMPORTED]]
    ELSE [ok |-> FALSE, store |-> st]

\* delete(id, reason): soft delete, the record stays.
tracker_delete_subscription(st, id, reason) ==
    [st EXCEPT ![id].status = STATUS_DELETED, ![id].deletionReason = reason]

\* listByPrincipal(principalId, status): the ids of the records of that
\* principal in that status.
list_subscriptions(st, principal_id, request_status) ==
    {i \in DOMAIN st : /\ st[i].subscriberPrincipal = principal_id
                       /\ st[i].status = request_status}

\* get(id): the record, or NotFound.
tracker_get_subscription(st, id) ==
    IF id \in DOMAIN st THEN [found |-> TRUE, record |-> <<st[id]>>]
    ELSE [found |-> FALSE, record |-> <<>>]

(* ------------------- ApiAutomator (catalog and shares) ------------------ *)

describe_table(db, t) == db = DatabaseName /\ t \in VisibleTables

\* DescribeTable in a consumer's own catalog: the table of a database
\* created there.
consumer_describe_table(dbs, account, db, t) ==
    db \in Range(dbs[account]) /\ t \in VisibleTables

\* GetOrCreateDatabase: databases[account] lists the databases created there.
get_or_create_database(dbs, account, name) ==
    IF name \in Range(dbs[account]) THEN dbs
    ELSE [dbs EXCEPT ![account] = Append(@, name)]

ShareVisible(rm, account, arn) ==
    rm[arn].receiver = account /\ rm[arn].state # "NONE"

\* AcceptShares(shareArns[]) -> {accepted[], alreadyActive[], notFound[]}
accept_lf_resource_shares(rm, account, share_list) ==
    LET S == Range(share_list)
        acc == {a \in S : ShareVisible(rm, account, a) /\ rm[a].state = "PENDING"}
        act == {a \in S : ShareVisible(rm, account, a) /\ rm[a].state = "ACTIVE"}
    IN  [accepted |-> acc, active |-> act, not_found |-> S \ (acc \cup act),
         ram |-> [a \in Arns |-> IF a \in acc THEN [rm[a] EXCEPT !.state = "ACTIVE"]
                                 ELSE rm[a]]]

\* LeaveShares(principal, shares): a no-op on a share the principal is no member of.
leave_ram_shares(rm, principal, ram_shares) ==
    LET S == {ram_shares[k].arn : k \in DOMAIN ram_shares}
    IN  [a \in Arns |-> IF a \in S /\ rm[a].receiver = principal /\ rm[a].state = "ACTIVE"
                        THEN NoShare ELSE rm[a]]

(* ------------------------- DataMeshConsumer --------------------------- *)

\* Variant: the principal is read from the call's arguments.
request_principal_from_args(c, owner) == owner

\* The principal recorded on a request: the session's own account.
request_principal(c, owner) == c

\* Variant: only the first requested table is described.
first_invisible_head_only(db, table_list) ==
    IF table_list # <<>> /\ ~describe_table(db, table_list[1]) THEN 1 ELSE 0

\* Variant: an empty table list is refused like an invisible table.
first_invisible_or_empty(db, table_list) ==
    LET bad == {i \in DOMAIN table_list : ~describe_table(db, table_list[i])}
    IN  IF table_list = <<>> THEN 1
        ELSE IF bad = {} THEN 0 ELSE CHOOSE i \in bad : \A j \in bad : i <= j

\* The visibility loop: the position of the first table describe_table fails
\* for, 0 when every table is visible.
first_invisible(db, table_list) ==
    LET bad == {i \in DOMAIN table_list : ~describe_table(db, table_list[i])}
    IN  IF bad = {} THEN 0 ELSE CHOOSE i \in bad : \A j \in bad : i <= j

request_access_to_product(st, c, owner, db, tables, perms) ==
    LET table_list == ensure_list(tables)
        perm_list == ensure_list(perms)
        bad == first_invisible(db, table_list)
        described == [i \in 1 .. (IF bad = 0 THEN Len(table_list) ELSE bad) |-> "describe_table"]
        r == create_subscription_request(st, owner, db, table_list,
                                         request_principal(c, owner), perm_list)
        base == [NoCall EXCEPT !.op = "request", !.caller = c, !.tables = table_list]
    IN  IF bad # 0
        THEN [store |-> st,
              call |-> [base EXCEPT !.result = "ObjectNotVisible", !.calls = described]]
        ELSE [store |-> r.store,
              call |-> [base EXCEPT !.id = r.id,
                                    !.result = IF r.ok THEN "ok" ELSE "Conflict",
                                    !.calls = Append(described, "create_subscription_request")]]

\* Variant: the database is created on every finalize, present or not.
finalize_create_database_always(dbs, c, subscription) ==
    [dbs EXCEPT ![c] = Append(@, subscription.databaseName)]

\* Variant: the database step is skipped.
finalize_create_database_never(dbs, c, subscription) == dbs

\* The shared database reference finalize creates in the caller's own account.
finalize_create_database(dbs, c, subscription) ==
    get_or_create_database(dbs, c, subscription.databaseName)

\* Variant: the loop over the shares misses the last one.
finalize_share_list_short(subscription) ==
    [k \in 1 .. (Len(subscription.ramShares) - 1) |-> subscription.ramShares[k].arn]

\* The share ARNs finalize hands to accept_lf_resource_shares.
finalize_share_list(subscription) ==
    [k \in DOMAIN subscription.ramShares |-> subscription.ramShares[k].arn]

\* Variant: the import stops when a share could not be resolved.
finalize_proceeds_if_resolved(accepted, active, not_found) == not_found = {}

\* After acceptance the three counts are only logged; the import goes on.
finalize_proceeds(accepted, active, not_found) == TRUE

\* Variant: the status is written whatever the record's status is.
finalize_write_unguarded(st, id) ==
    [ok |-> TRUE, store |-> [st EXCEPT ![id].status = STATUS_IMPORTED]]

\* The status write that ends finalize.
finalize_write(st, id) == mark_subscription_as_imported(st, id)

finalize_subscription(st, dbs, rm, c, id, fault) ==
    LET base == [NoCall EXCEPT !.op = "finalize", !.caller = c, !.id = id]
    IN  IF id \notin DOMAIN st
        THEN [store |-> st, databases |-> dbs, ram |-> rm,
              call |-> [base EXCEPT !.result = "NotFound", !.calls = <<"get_subscription">>]]
        ELSE
        LET subscription == st[id]
            dbs1 == finalize_create_database(dbs, c, subscription)
            shares == finalize_share_list(subscription)
            r == accept_lf_resource_shares(rm, c, shares)
            w == finalize_write(st, id)
            read == [base EXCEPT !.status0 = subscription.status, !.fault = fault]
            got == [read EXCEPT !.accepted = r.accepted, !.active = r.active,
                                !.not_found = r.not_found]
            c3 == <<"get_subscription", "get_or_create_database", "accept_lf_resource_shares">>
        IN  IF fault = "accept"
            THEN [store |-> st, databases |-> dbs1, ram |-> rm,
                  call |-> [read EXCEPT !.result = "RemoteUnavailable", !.calls = c3]]
            ELSE IF ~finalize_proceeds(r.accepted, r.active, r.not_found)
            THEN [store |-> st, databases |-> dbs1, ram |-> r.ram,
                  call |-> [got EXCEPT !.result = "PartialFailure", !.calls = c3]]
            ELSE IF fault = "write"
            THEN [store |-> st, databases |-> dbs1, ram |-> r.ram,
                  call |-> [got EXCEPT !.result = "RemoteUnavailable",
                                       !.calls = Append(c3, "mark_subscription_as_imported")]]
            ELSE [store |-> w.store, databases |-> dbs1, ram |-> r.ram,
                  call |-> [got EXCEPT !.result = IF w.ok THEN "ok" ELSE "PreconditionFailed",
                                       !.calls = Append(c3, "mark_subscription_as_imported")]]

\* get_subscription: the store's get, nothing else.
get_subscription(st, dbs, rm, c, request_id) ==
    [store |-> st, databases |-> dbs, ram |-> rm,
     result |-> tracker_get_subscription(st, request_id)]

\* get_table_info: describe_table in the consumer's own account.
get_table_info(st, dbs, rm, c, database_name, table_name) ==
    [store |-> st, databases |-> dbs, ram |-> rm,
     result |-> consumer_describe_table(dbs, c, database_name, table_name)]

\* Variant: the listing the docstring announces, "active and pending".
list_product_access_and_pending(st, dbs, rm, c) ==
    [store |-> st, databases |-> dbs, ram |-> rm,
     result |-> list_subscriptions(st, c, STATUS_ACTIVE)
                   \cup list_subscriptions(st, c, STATUS_REQUESTED)]

\* list_product_access: the caller's own account and STATUS_ACTIVE, handed
\* to the store's list_subscriptions.
list_product_access(st, dbs, rm, c) ==
    LET me == c
    IN  [store |-> st, databases |-> dbs, ram |-> rm,
         result |-> list_subscriptions(st, me, STATUS_ACTIVE)]

\* Variant: the ownership test is dropped.
delete_denied_never(subscription, c) == FALSE

\* Variant: a record already deleted is refused as well.
delete_denied_or_deleted(subscription, c) ==
    subscription.subscriberPrincipal # c \/ subscription.status = STATUS_DELETED

\* Variant: the comparison of the ownership test is inverted.
delete_denied_inverted(subscription, c) == subscription.subscriberPrincipal = c

\* The ownership test of delete: the caller is not the subscriber.
delete_denied(subscription, c) == subscription.subscriberPrincipal # c

\* Variant: a failure of leave_ram_shares is swallowed and the delete goes on.
delete_after_leave_failure_swallowed(st, id, reason) ==
    tracker_delete_subscription(st, id, reason)

\* leave_ram_shares raised: the raise leaves delete_subscription, the store's
\* delete on the next line is not issued.
delete_after_leave_failure(st, id, reason) == st

\* Variant: the record is removed from the store.
delete_write_removes(st, id, reason) ==
    SubSeq(st, 1, id - 1) \o SubSeq(st, id + 1, Len(st))

\* The store call that ends delete: the soft delete with the reason.
delete_write(st, id, reason) == tracker_delete_subscription(st, id, reason)

\* n: the shares leave_ram_shares had left when it raised (fault "leave").
delete_subscription(st, rm, c, id, reason, fault, n) ==
    LET base == [NoCall EXCEPT !.op = "delete", !.caller = c, !.id = id, !.reason = reason]
    IN  IF id \notin DOMAIN st
        THEN [store |-> st, ram |-> rm,
              call |-> [base EXCEPT !.result = "NotFound", !.calls = <<"get_subscription">>]]
        ELSE
        LET subscription == st[id]
            read == [base EXCEPT !.status0 = subscription.status]
        IN  IF delete_denied(subscription, c)
            THEN [store |-> st, ram |-> rm,
                  call |-> [read EXCEPT !.result = "PermissionDenied",
                                        !.calls = <<"get_subscription">>]]
            ELSE IF fault = "leave"
            THEN [store |-> delete_after_leave_failure(st, id, reason),
                  ram |-> leave_ram_shares(rm, subscription.subscriberPrincipal,
                                           SubSeq(subscription.ramShares, 1, n)),
                  call |-> [read EXCEPT !.fault = fault, !.result = "RemoteUnavailable",
                                        !.calls = <<"get_subscription", "leave_ram_shares">>]]
            ELSE [store |-> delete_write(st, id, reason),
                  ram |-> leave_ram_shares(rm, subscription.subscriberPrincipal,
                                           subscription.ramShares),
                  call |-> [read EXCEPT !.result = "ok",
                                        !.calls = <<"get_subscription", "leave_ram_shares",
                                                    "delete_subscription">>]]

(* -------------------------- calls in progress -------------------------- *)

\* A thread before it has read a record.
NoSubscription == [NewRecord("-", "-", <<>>, "-", <<>>) EXCEPT !.status = "-"]

\* A thread's position in its handler and what it holds: the record it got
\* from get_subscription, the shares its accept_lf_resource_shares accepted,
\* the shares its leave_ram_shares released, the result once it is done.
Idle == [op |-> "none", caller |-> "-", id |-> 0, reason |-> NoReason, pc |-> "idle",
         subscription |-> NoSubscription, result |-> "-", accepted |-> {}, left |-> {}]

\* The shares of ram_shares a leave by principal releases.
shares_left(rm, principal, ram_shares) ==
    {a \in Arns : rm[a] # NoShare /\ leave_ram_shares(rm, principal, ram_shares)[a] = NoShare}

(* ------------------------------ actions ------------------------------- *)

Init ==
    /\ store = <<>>
    /\ databases = [a \in Accounts |-> <<>>]
    /\ ram = [a \in Arns |-> NoShare]
    /\ threads = [p \in Threads |-> Idle]

\* A request is made whenever the store has room for the record it may create.
Request(c, tables, perms) ==
    /\ LET o == request_access_to_product(store, c, OwnerAccount, DatabaseName, tables, perms)
       IN  /\ Len(o.store) <= MaxSubs
           /\ store' = o.store
    /\ UNCHANGED <<databases, ram, threads>>

Finalize(c, id, fault) ==
    /\ LET o == finalize_subscription(store, databases, ram, c, id, fault)
       IN  /\ store' = o.store
           /\ databases' = o.databases
           /\ ram' = o.ram
    /\ UNCHANGED threads

Delete(c, id, reason, fault, n) ==
    /\ n = 0 \/ (fault = "leave" /\ id \in DOMAIN store /\ n < Len(store[id].ramShares))
    /\ LET o == delete_subscription(store, ram, c, id, reason, fault, n)
       IN  /\ store' = o.store
           /\ ram' = o.ram
    /\ UNCHANGED <<databases, threads>>

\* The three read handlers: they return and leave everything as it is.
GetSubscription(c, id) ==
    /\ LET o == get_subscription(store, databases, ram, c, id)
       IN  store' = o.store /\ databases' = o.databases /\ ram' = o.ram
    /\ UNCHANGED threads

GetTableInfo(c, db, t) ==
    /\ LET o == get_table_info(store, databases, ram, c, db, t)
       IN  store' = o.store /\ databases' = o.databases /\ ram' = o.ram
    /\ UNCHANGED threads

ListProductAccess(c) ==
    /\ LET o == list_product_access(store, databases, ram, c)
       IN  store' = o.store /\ databases' = o.databases /\ ram' = o.ram
    /\ UNCHANGED threads

\* The owner approves a request: n shares are issued to the subscriber and the
\* record becomes ACTIVE (design specification, section 3, Lifecycle).
Approve(id, n) ==
    /\ id \in DOMAIN store
    /\ store[id].status = STATUS_REQUESTED
    /\ store' = [store EXCEPT ![id].status = STATUS_ACTIVE,
                              ![id].ramShares = [k \in 1 .. n |-> [arn |-> <<id, k>>]]]
    /\ ram' = [a \in Arns |-> IF a[1] = id /\ a[2] <= n
                              THEN [state |-> "PENDING",
                                    receiver |-> store[id].subscriberPrincipal]
                              ELSE ram[a]]
    /\ UNCHANGED <<databases, threads>>

\* The owner revokes a share it had issued.
Revoke(arn) ==
    /\ ram[arn].state # "NONE"
    /\ ram' = [ram EXCEPT ![arn] = NoShare]
    /\ UNCHANGED <<store, databases, threads>>

Next ==
    \/ \E c \in Accounts, tables \in TableArgs, perms \in PermArgs : Request(c, tables, perms)
    \/ \E c \in Accounts, id \in Ids, fault \in FinalizeFaults : Finalize(c, id, fault)
    \/ \E c \in Accounts, id \in Ids, reason \in Reasons, fault \in DeleteFaults,
          n \in 0 .. MaxShares : Delete(c, id, reason, fault, n)
    \/ \E c \in Accounts, id \in Ids : GetSubscription(c, id)
    \/ \E c \in Accounts, t \in TableNames : GetTableInfo(c, DatabaseName, t)
    \/ \E c \in Accounts : ListProductAccess(c)
    \/ \E id \in Ids, n \in ShareKeys : Approve(id, n)
    \/ \E arn \in Arns : Revoke(arn)

Spec == Init /\ [][Next]_vars

(* ----------------- the handlers, one remote call a step ---------------- *)

\* finalize_subscription: get_subscription.
FinalizeGet(p, c, id) ==
    /\ threads[p].pc = "idle"
    /\ threads' = [threads EXCEPT ![p] =
          IF id \in DOMAIN store
          THEN [Idle EXCEPT !.op = "finalize", !.caller = c, !.id = id,
                            !.pc = "get_or_create_database", !.subscription = store[id]]
          ELSE [Idle EXCEPT !.op = "finalize", !.caller = c, !.id = id,
                            !.pc = "done", !.result = "NotFound"]]
    /\ UNCHANGED <<store, databases, ram>>

\* finalize_subscription: get_or_create_database.
FinalizeCreateDatabase(p) ==
    /\ threads[p].op = "finalize" /\ threads[p].pc = "get_or_create_database"
    /\ databases' = finalize_create_database(databases, threads[p].caller,
                                             threads[p].subscription)
    /\ threads' = [threads EXCEPT ![p].pc = "accept_lf_resource_shares"]
    /\ UNCHANGED <<store, ram>>

\* finalize_subscription: accept_lf_resource_shares on the shares it read.
FinalizeAcceptShares(p) ==
    /\ threads[p].op = "finalize" /\ threads[p].pc = "accept_lf_resource_shares"
    /\ LET r == accept_lf_resource_shares(ram, threads[p].caller,
                                          finalize_share_list(threads[p].subscription))
       IN  /\ ram' = r.ram
           /\ threads' = [threads EXCEPT
                 ![p].accepted = r.accepted,
                 ![p].pc = IF finalize_proceeds(r.accepted, r.active, r.not_found)
                           THEN "mark_subscription_as_imported" ELSE "done",
                 ![p].result = IF finalize_proceeds(r.accepted, r.active, r.not_found)
                               THEN "-" ELSE "PartialFailure"]
    /\ UNCHANGED <<store, databases>>

\* finalize_subscription: mark_subscription_as_imported.
FinalizeMark(p) ==
    /\ threads[p].op = "finalize" /\ threads[p].pc = "mark_subscription_as_imported"
    /\ LET w == finalize_write(store, threads[p].id)
       IN  /\ store' = w.store
           /\ threads' = [threads EXCEPT
                 ![p].pc = "done",
                 ![p].result = IF w.ok THEN "ok" ELSE "PreconditionFailed"]
    /\ UNCHANGED <<databases, ram>>

\* delete_subscription: get_subscription and the ownership test.
DeleteGet(p, c, id, reason) ==
    /\ threads[p].pc = "idle"
    /\ threads' = [threads EXCEPT ![p] =
          LET t == [Idle EXCEPT !.op = "delete", !.caller = c, !.id = id, !.reason = reason]
          IN  IF id \notin DOMAIN store
              THEN [t EXCEPT !.pc = "done", !.result = "NotFound"]
              ELSE IF delete_denied(store[id], c)
              THEN [t EXCEPT !.pc = "done", !.result = "PermissionDenied",
                             !.subscription = store[id]]
              ELSE [t EXCEPT !.pc = "leave_ram_shares", !.subscription = store[id]]]
    /\ UNCHANGED <<store, databases, ram>>

\* delete_subscription: leave_ram_shares on the shares it read.
DeleteLeaveShares(p) ==
    /\ threads[p].op = "delete" /\ threads[p].pc = "leave_ram_shares"
    /\ LET subscription == threads[p].subscription
       IN  /\ ram' = leave_ram_shares(ram, subscription.subscriberPrincipal,
                                      subscription.ramShares)
           /\ threads' = [threads EXCEPT
                 ![p].left = shares_left(ram, subscription.subscriberPrincipal,
                                         subscription.ramShares),
                 ![p].pc = "delete_subscription"]
    /\ UNCHANGED <<store, databases>>

\* delete_subscription: the store's soft delete.
DeleteMark(p) ==
    /\ threads[p].op = "delete" /\ threads[p].pc = "delete_subscription"
    /\ store' = delete_write(store, threads[p].id, threads[p].reason)
    /\ threads' = [threads EXCEPT ![p].pc = "done", ![p].result = "ok"]
    /\ UNCHANGED <<databases, ram>>

\* The records a store can hold once a request was made, approved with n
\* shares, imported or deleted, with the shares and catalogs that go with it.
StartRecords ==
    {[NewRecord(OwnerAccount, DatabaseName, <<"orders">>, s, <<"SELECT">>) EXCEPT
          !.status = st,
          !.ramShares = [k \in 1 .. n |-> [arn |-> <<1, k>>]],
          !.deletionReason = IF st = STATUS_DELETED THEN "wrong product" ELSE NoReason] :
      s \in Accounts, st \in {STATUS_ACTIVE, STATUS_IMPORTED, STATUS_DELETED},
      n \in ShareKeys}
    \cup {NewRecord(OwnerAccount, DatabaseName, <<"orders">>, s, <<"SELECT">>) :
             s \in Accounts}

\* The states a store of one such record is found in.
StartStates ==
    {s \in [record : StartRecords,
            databases : [Accounts -> {<<>>, <<DatabaseName>>}],
            ram : [Arns -> {NoShare} \cup [state : {"PENDING", "ACTIVE"}, receiver : Accounts]]] :
        \* the shares are those issued to the record's subscriber
        /\ \A a \in Arns : s.ram[a] # NoShare =>
              /\ a[1] = 1 /\ a[2] <= Len(s.record.ramShares)
              /\ s.ram[a].receiver = s.record.subscriberPrincipal
        \* a share is active only once its receiver's finalize created the database
        /\ \A a \in Arns : s.ram[a].state = "ACTIVE" => s.databases[s.ram[a].receiver] # <<>>
        \* one accept_lf_resource_shares accepts every share still pending
        /\ Cardinality({s.ram[a].state : a \in Arns} \ {"NONE"}) <= 1
        \* an import created the database in the account it ran in, and accepted
        \* the pending shares if that was the subscriber's account
        /\ s.record.status = STATUS_IMPORTED =>
              \E c \in Accounts :
                  /\ s.databases[c] # <<>>
                  /\ (\E a \in Arns : s.ram[a].state = "PENDING")
                        => c # s.record.subscriberPrincipal}

InitConcurrent ==
    /\ \E s \in StartStates :
          /\ store = <<s.record>>
          /\ databases = s.databases
          /\ ram = s.ram
    /\ threads = [p \in Threads |-> Idle]

NextConcurrent ==
    \/ \E p \in Threads, c \in Accounts, id \in DOMAIN store : FinalizeGet(p, c, id)
    \/ \E p \in Threads : FinalizeCreateDatabase(p)
    \/ \E p \in Threads : FinalizeAcceptShares(p)
    \/ \E p \in Threads : FinalizeMark(p)
    \/ \E p \in Threads, c \in Accounts, id \in DOMAIN store, reason \in Reasons :
          DeleteGet(p, c, id, reason)
    \/ \E p \in Threads : DeleteLeaveShares(p)
    \/ \E p \in Threads : DeleteMark(p)

SpecConcurrent == InitConcurrent /\ [][NextConcurrent]_vars

(* ------------------------------ properties ---------------------------- *)

\* Calls that change the store, the catalog or the shares.
MutatingCalls == {"create_subscription_request", "get_or_create_database",
                  "accept_lf_resource_shares", "mark_subscription_as_imported",
                  "leave_ram_shares", "delete_subscription"}

\* The handlers applied to the current state.
FinalizeNow(c, id) == finalize_subscription(store, databases, ram, c, id, "none")
DeleteNow(c, id, reason) == delete_subscription(store, ram, c, id, reason, "none", 0)
RequestNow(c, tables, perms) ==
    request_access_to_product(store, c, OwnerAccount, DatabaseName, tables, perms)
AllVisible(tables) ==
    \A t \in Range(ensure_list(tables)) : describe_table(DatabaseName, t)
ShareArns(id) == Range(finalize_share_list(store[id]))

\* C1: finalize_subscription on a record whose status is not ACTIVE fails with
\* PreconditionFailed and makes no mutating call: the store, the catalog and
\* the shares are as before.
C1_FinalizeNonActiveNoMutation ==
    \A c \in Accounts, id \in DOMAIN store :
        store[id].status # STATUS_ACTIVE =>
            LET o == FinalizeNow(c, id)
            IN  /\ o.call.result = "PreconditionFailed"
                /\ Range(o.call.calls) \cap MutatingCalls = {}
                /\ o.store = store /\ o.databases = databases /\ o.ram = ram

\* C2 as claimed: a status moves only REQUESTED -> ACTIVE -> IMPORTED, or to
\* DELETED from REQUESTED or ACTIVE; an IMPORTED or DELETED status never changes.
C2_TerminalStatusesFinal ==
    [][\A id \in DOMAIN store :
          \/ store'[id].status = store[id].status
          \/ <<store[id].status, store'[id].status>> \in
                {<<STATUS_REQUESTED, STATUS_ACTIVE>>, <<STATUS_ACTIVE, STATUS_IMPORTED>>,
                 <<STATUS_REQUESTED, STATUS_DELETED>>, <<STATUS_ACTIVE, STATUS_DELETED>>}]_vars

\* C2 as amended: a status moves only REQUESTED -> ACTIVE -> IMPORTED, or to
\* DELETED from any other status, IMPORTED included; a DELETED status never
\* changes, and an IMPORTED status changes only to DELETED.
C2_StatusTransitions ==
    [][\A id \in DOMAIN store :
          /\ id \in DOMAIN store'
          /\ \/ store'[id].status = store[id].status
             \/ <<store[id].status, store'[id].status>> \in
                   {<<STATUS_REQUESTED, STATUS_ACTIVE>>, <<STATUS_ACTIVE, STATUS_IMPORTED>>,
                    <<STATUS_REQUESTED, STATUS_DELETED>>, <<STATUS_ACTIVE, STATUS_DELETED>>,
                    <<STATUS_IMPORTED, STATUS_DELETED>>}]_vars

\* C2 witness: an IMPORTED record with an accepted share, which its
\* subscriber's delete moves to DELETED and a further finalize leaves IMPORTED.
C2_Witness ==
    \E id \in DOMAIN store, reason \in Reasons :
        LET c == store[id].subscriberPrincipal
        IN  /\ store[id].status = STATUS_IMPORTED
            /\ \E a \in ShareArns(id) : ram[a].state = "ACTIVE"
            /\ DeleteNow(c, id, reason).store[id].status = STATUS_DELETED
            /\ FinalizeNow(c, id).store[id].status = STATUS_IMPORTED

\* C3: finalize_subscription and delete_subscription called from an account
\* other than the record's subscriberPrincipal are rejected and change neither
\* the record nor the catalog nor the shares.
C3_OnlySubscriberActs ==
    \A c \in Accounts, id \in DOMAIN store :
        store[id].subscriberPrincipal # c =>
            /\ LET o == FinalizeNow(c, id)
               IN  /\ o.call.result # "ok"
                   /\ o.store = store /\ o.databases = databases /\ o.ram = ram
            /\ \A reason \in Reasons :
                   LET o == DeleteNow(c, id, reason)
                   IN  o.call.result # "ok" /\ o.store = store /\ o.ram = ram

\* C4: delete_subscription called from an account other than the record's
\* subscriberPrincipal fails with a permission error after get_subscription
\* alone: no leave_ram_shares, no store write, record and shares unchanged.
C4_DeleteByOtherDenied ==
    \A c \in Accounts, id \in DOMAIN store, reason \in Reasons,
       fault \in DeleteFaults, n \in 0 .. MaxShares :
        store[id].subscriberPrincipal # c =>
            LET o == delete_subscription(store, ram, c, id, reason, fault, n)
            IN  /\ o.call.result = "PermissionDenied"
                /\ o.call.calls = <<"get_subscription">>
                /\ o.store = store /\ o.ram = ram

\* C4 witness: an imported record with an accepted share, and another account
\* whose delete of it is denied.
C4_Witness ==
    \E c \in Accounts, id \in DOMAIN store, reason \in Reasons :
        /\ store[id].subscriberPrincipal # c
        /\ store[id].status = STATUS_IMPORTED
        /\ \E a \in ShareArns(id) : ram[a].state = "ACTIVE"
        /\ DeleteNow(c, id, reason).call.result = "PermissionDenied"

\* What a request that created its record leaves: the old records untouched
\* and one more, REQUESTED, for the caller's own account.
CreatedOne(c, tables, o) ==
    /\ Len(o.store) = Len(store) + 1
    /\ SubSeq(o.store, 1, Len(store)) = store
    /\ o.call.id = Len(o.store)
    /\ o.store[o.call.id].status = STATUS_REQUESTED
    /\ o.store[o.call.id].subscriberPrincipal = c
    /\ o.store[o.call.id].tables = ensure_list(tables)

\* C5 as claimed: every request whose tables are all visible creates exactly
\* one record, REQUESTED, with the caller's account as subscriberPrincipal.
C5_VisibleRequestCreatesOne ==
    \A c \in Accounts, tables \in TableArgs, perms \in PermArgs :
        AllVisible(tables) => CreatedOne(c, tables, RequestNow(c, tables, perms))

\* C5 as amended: a request whose tables are all visible and which the store
\* accepts (no equivalent pending request exists) creates exactly one record,
\* REQUESTED, with the caller's account as subscriberPrincipal; one the store
\* refuses with Conflict creates none.
C5_AcceptedRequestCreatesOne ==
    \A c \in Accounts, tables \in TableArgs, perms \in PermArgs :
        AllVisible(tables) =>
            LET o == RequestNow(c, tables, perms)
                dup == create_conflict(store, OwnerAccount, DatabaseName,
                                       ensure_list(tables), c)
            IN  /\ ~dup => o.call.result = "ok" /\ CreatedOne(c, tables, o)
                /\ dup => o.call.result = "Conflict" /\ o.store = store

\* C5 witness: a request for a visible table has created its record; the same
\* request from the other account would create a second one, and repeated by
\* the same account it is refused.
C5_Witness ==
    \E c \in Accounts, d \in Accounts :
        LET tables == [kind |-> "list", val |-> <<"orders">>]
            perms == [kind |-> "list", val |-> <<"SELECT">>]
        IN  /\ c # d
            /\ Len(store) = 1
            /\ store[1].status = STATUS_REQUESTED
            /\ store[1].tables = <<"orders">>
            /\ store[1].subscriberPrincipal = c
            /\ CreatedOne(d, tables, RequestNow(d, tables, perms))
            /\ RequestNow(c, tables, perms).call.result = "Conflict"

\* C6: a request naming a table describe_table fails for, at any position,
\* fails with ObjectNotVisible before the store write and creates no record.
C6_InvisibleTableCreatesNone ==
    \A c \in Accounts, tables \in TableArgs, perms \in PermArgs :
        ~AllVisible(tables) =>
            LET o == RequestNow(c, tables, perms)
            IN  /\ o.call.result = "ObjectNotVisible"
                /\ "create_subscription_request" \notin Range(o.call.calls)
                /\ o.store = store

\* C6 witness: with a record already stored, a request whose second table is
\* invisible is refused after two describe_table calls.
C6_Witness ==
    /\ Len(store) = 1
    /\ \E c \in Accounts, perms \in PermArgs :
          LET o == RequestNow(c, [kind |-> "list", val |-> <<"orders", "ghost">>], perms)
          IN  /\ o.call.result = "ObjectNotVisible"
              /\ o.call.calls = <<"describe_table", "describe_table">>

\* Two finalize calls in sequence from account c on record id: the second call
\* runs on the state the first one left.
FinalizeAgain(c, id) ==
    LET o1 == FinalizeNow(c, id)
    IN  finalize_subscription(o1.store, o1.databases, o1.ram, c, id, "none")

\* What the second of two finalize calls leaves unchanged: no second
\* database, every share the first call accepted reported as already active,
\* nothing newly accepted, status IMPORTED, the state of the first call.
SecondFinalizeChangesNothing(id, o1, o2) ==
    /\ o2.databases = o1.databases
    /\ o1.call.accepted \subseteq o2.call.active
    /\ o2.call.accepted = {}
    /\ o2.store[id].status = STATUS_IMPORTED
    /\ o2.store = o1.store /\ o2.ram = o1.ram

\* C7 as claimed: finalize called twice in sequence on an ACTIVE record: the
\* second call raises no error, creates no second database, reports every
\* share accepted by the first call as already active, and leaves the status
\* IMPORTED and the state of the first call.
C7_FinalizeTwiceNoError ==
    \A c \in Accounts, id \in DOMAIN store :
        store[id].status = STATUS_ACTIVE =>
            LET o1 == FinalizeNow(c, id)
                o2 == FinalizeAgain(c, id)
            IN  /\ o1.call.result = "ok"
                /\ o2.call.result = "ok"
                /\ SecondFinalizeChangesNothing(id, o1, o2)

\* C7 as amended: finalize called twice in sequence on an ACTIVE record: the
\* second call creates no second database, reports every share accepted by
\* the first call as already active and leaves the status IMPORTED and the
\* state of the first call; its status write is refused, the record being
\* IMPORTED by then, so it ends with PreconditionFailed.
C7_FinalizeTwiceSameState ==
    \A c \in Accounts, id \in DOMAIN store :
        store[id].status = STATUS_ACTIVE =>
            LET o1 == FinalizeNow(c, id)
                o2 == FinalizeAgain(c, id)
            IN  /\ o1.call.result = "ok"
                /\ o2.call.result = "PreconditionFailed"
                /\ o2.call.calls = o1.call.calls
                /\ SecondFinalizeChangesNothing(id, o1, o2)

\* C7 witness: a first finalize has run (IMPORTED, every share accepted, the
\* database created) and a second one by the subscriber finds every share
\* already active.
C7_Witness ==
    \E id \in DOMAIN store :
        LET c == store[id].subscriberPrincipal
        IN  /\ store[id].status = STATUS_IMPORTED
            /\ Len(store[id].ramShares) = MaxShares
            /\ \A a \in ShareArns(id) : ram[a].state = "ACTIVE"
            /\ databases[c] = <<store[id].databaseName>>
            /\ FinalizeNow(c, id).call.active = ShareArns(id)
            /\ FinalizeNow(c, id).call.result = "PreconditionFailed"

\* C8: delete called twice in sequence by the subscriber with the same
\* reason: both calls succeed, the second one's leave_ram_shares raises
\* nothing on shares already left, and the record (DELETED, with the reason)
\* and the shares after two calls are those after one.
C8_DeleteTwiceIdempotent ==
    \A id \in DOMAIN store, reason \in Reasons :
        LET c == store[id].subscriberPrincipal
            o1 == DeleteNow(c, id, reason)
            o2 == delete_subscription(o1.store, o1.ram, c, id, reason, "none", 0)
        IN  /\ o1.call.result = "ok"
            /\ o2.call.result = "ok"
            /\ o2.call.calls = <<"get_subscription", "leave_ram_shares", "delete_subscription">>
            /\ o2.store = o1.store /\ o2.ram = o1.ram
            /\ o2.store[id].status = STATUS_DELETED
            /\ o2.store[id].deletionReason = reason

\* C8 witness: a delete has run on an imported record (DELETED, reason
\* recorded, every share left) and the subscriber's second delete succeeds.
C8_Witness ==
    \E id \in DOMAIN store :
        /\ store[id].status = STATUS_DELETED
        /\ store[id].deletionReason \in Reasons
        /\ Len(store[id].ramShares) = MaxShares
        /\ \A a \in ShareArns(id) : ram[a] = NoShare
        /\ store[id].databaseName \in Range(databases[store[id].subscriberPrincipal])
        /\ DeleteNow(store[id].subscriberPrincipal, id, store[id].deletionReason).call.result = "ok"

\* The position of a call in a call log, 0 when absent.
CallIndex(calls, name) ==
    IF name \in Range(calls) THEN CHOOSE i \in DOMAIN calls : calls[i] = name ELSE 0

\* C9: finalize writes IMPORTED only after accept_lf_resource_shares returned
\* with every share of ramShares in one of its three results, and it writes
\* it also when shares are unresolved: on an ACTIVE record whose only share
\* was revoked, unresolved counts 1 and the status becomes IMPORTED.
C9_ImportAfterAcceptance ==
    \A c \in Accounts, id \in DOMAIN store, fault \in FinalizeFaults :
        LET o == finalize_subscription(store, databases, ram, c, id, fault)
            wrote == o.store # store
        IN  /\ wrote => /\ o.store[id].status = STATUS_IMPORTED
                        /\ 0 < CallIndex(o.call.calls, "accept_lf_resource_shares")
                        /\ CallIndex(o.call.calls, "accept_lf_resource_shares")
                              < CallIndex(o.call.calls, "mark_subscription_as_imported")
                        /\ o.call.accepted \cup o.call.active \cup o.call.not_found
                              = ShareArns(id)
            /\ (store[id].status = STATUS_ACTIVE /\ fault = "none") =>
                  /\ o.call.result = "ok"
                  /\ o.store[id].status = STATUS_IMPORTED
                  /\ o.call.not_found =
                        {a \in ShareArns(id) : ~ShareVisible(ram, c, a)}
                  /\ (Len(store[id].ramShares) = 1 /\ ram[<<id, 1>>].state = "NONE")
                        => Cardinality(o.call.not_found) = 1

\* C9 witness: an ACTIVE record whose only share was revoked, which finalize
\* imports with one share unresolved.
C9_Witness ==
    \E id \in DOMAIN store :
        LET o == FinalizeNow(store[id].subscriberPrincipal, id)
        IN  /\ store[id].status = STATUS_ACTIVE
            /\ Len(store[id].ramShares) = 1
            /\ ram[<<id, 1>>].state = "NONE"
            /\ Cardinality(o.call.not_found) = 1
            /\ o.store[id].status = STATUS_IMPORTED

\* No two pending (REQUESTED) records of st share the tuple (owner, subscriber,
\* database, tables).
OnePendingPerTuple(st) ==
    \A i, j \in DOMAIN st :
        (i # j /\ st[i].status = STATUS_REQUESTED /\ st[j].status = STATUS_REQUESTED)
            => RecordKey(st[i]) # RecordKey(st[j])

\* C10: no two pending (REQUESTED) records share the tuple (owner, subscriber,
\* database, tables), now and after any further request, and a request
\* duplicating a pending one fails with Conflict and creates no record.
C10_OnePendingPerTuple ==
    /\ OnePendingPerTuple(store)
    /\ \A c \in Accounts, tables \in TableArgs, perms \in PermArgs :
          OnePendingPerTuple(RequestNow(c, tables, perms).store)
    /\ \A c \in Accounts, tables \in TableArgs, perms \in PermArgs :
          (\E i \in DOMAIN store :
               /\ store[i].status = STATUS_REQUESTED
               /\ store[i].subscriberPrincipal = c
               /\ store[i].ownerAccountId = OwnerAccount
               /\ store[i].databaseName = DatabaseName
               /\ Range(store[i].tables) = Range(ensure_list(tables))
               /\ AllVisible(tables))
              => LET o == RequestNow(c, tables, perms)
                 IN  o.call.result = "Conflict" /\ o.store = store

\* C10 witness: a pending request with room left in the store, whose retry
\* by the same account is refused with Conflict.
C10_Witness ==
    /\ Len(store) = 1
    /\ store[1].status = STATUS_REQUESTED
    /\ store[1].tables = <<"orders">>
    /\ RequestNow(store[1].subscriberPrincipal, [kind |-> "scalar", val |-> "orders"],
                  [kind |-> "scalar", val |-> "SELECT"]).call.result = "Conflict"

\* Threads p and q run the handlers opp and opq on the same record.
Both(p, opp, q, opq) ==
    /\ p # q
    /\ threads[p].op = opp /\ threads[q].op = opq
    /\ threads[p].id = threads[q].id
    /\ threads[p].id \in DOMAIN store

\* C11: two finalize calls interleaved in any way on a record that was ACTIVE
\* when the first of them read it: at most one of them performs the write
\* ACTIVE -> IMPORTED, the other one's write is refused; once a write is done
\* the status is IMPORTED and stays so, and ramShares keeps the value the
\* calls read, whatever database creation and share acceptance both ran.
C11_ConcurrentFinalizeOneWrite ==
    \A p, q \in Threads :
        (Both(p, "finalize", q, "finalize") /\ threads[p].subscription.status = STATUS_ACTIVE)
        => LET id == threads[p].id
           IN  /\ ~(threads[p].result = "ok" /\ threads[q].result = "ok")
               /\ store[id].ramShares = threads[p].subscription.ramShares
               /\ threads[q].subscription.ramShares = threads[p].subscription.ramShares
               /\ (threads[p].result = "ok" \/ threads[q].result = "ok")
                     => store[id].status = STATUS_IMPORTED
               /\ (threads[p].pc = "done" /\ threads[q].pc = "done")
                     => /\ store[id].status = STATUS_IMPORTED
                        /\ {threads[p].result, threads[q].result} = {"ok", "PreconditionFailed"}

\* C11 witness: both calls read the ACTIVE record and ran database creation
\* and share acceptance; one accepted the share, one wrote IMPORTED, the
\* other's write was refused.
C11_Witness ==
    \E p, q \in Threads :
        /\ Both(p, "finalize", q, "finalize")
        /\ threads[p].subscription.status = STATUS_ACTIVE
        /\ threads[q].subscription.status = STATUS_ACTIVE
        /\ threads[p].result = "ok" /\ threads[q].result = "PreconditionFailed"
        /\ threads[q].accepted # {}
        /\ store[threads[p].id].status = STATUS_IMPORTED

NoTables == [kind |-> "list", val |-> <<>>]

\* C14 as claimed: a request with an empty table list makes no describe_table
\* call and creates one REQUESTED record whose tables field is empty.
C14_EmptyRequestCreatesOne ==
    \A c \in Accounts, perms \in PermArgs :
        LET o == RequestNow(c, NoTables, perms)
        IN  /\ "describe_table" \notin Range(o.call.calls)
            /\ CreatedOne(c, NoTables, o)
            /\ o.store[o.call.id].tables = <<>>

\* C14 as amended: a request with an empty table list makes no describe_table
\* call, only the store's create; when the caller has no pending request for
\* the whole database it creates one REQUESTED record whose tables field is
\* empty, and when it has one the store refuses with Conflict and none is
\* created.
C14_EmptyRequestNoDescribe ==
    \A c \in Accounts, perms \in PermArgs :
        LET o == RequestNow(c, NoTables, perms)
            dup == create_conflict(store, OwnerAccount, DatabaseName, <<>>, c)
        IN  /\ "describe_table" \notin Range(o.call.calls)
            /\ o.call.calls = <<"create_subscription_request">>
            /\ ~dup => /\ o.call.result = "ok"
                        /\ CreatedOne(c, NoTables, o)
                        /\ o.store[o.call.id].tables = <<>>
                        /\ o.store[o.call.id].ramShares = <<>>
            /\ dup => o.call.result = "Conflict" /\ o.store = store

\* C14 witness: a request for the whole database has created its record
\* (REQUESTED, no tables); the other account's would create one as well, and
\* the same account's retry is refused.
C14_Witness ==
    \E c \in Accounts, d \in Accounts, perms \in PermArgs :
        /\ c # d
        /\ Len(store) = 1
        /\ store[1].status = STATUS_REQUESTED
        /\ store[1].tables = <<>>
        /\ store[1].subscriberPrincipal = c
        /\ CreatedOne(d, NoTables, RequestNow(d, NoTables, perms))
        /\ RequestNow(d, NoTables, perms).call.calls = <<"create_subscription_request">>
        /\ RequestNow(c, NoTables, perms).call.result = "Conflict"

\* C15: when the status write that ends finalize fails on an ACTIVE record,
\* the record is still ACTIVE, and the same caller's next finalize succeeds
\* and ends IMPORTED, creating no second database and accepting no share
\* anew: those the failed call accepted are reported already active.
C15_RetryAfterWriteFailure ==
    \A c \in Accounts, id \in DOMAIN store :
        store[id].status = STATUS_ACTIVE =>
            LET o1 == finalize_subscription(store, databases, ram, c, id, "write")
                o2 == finalize_subscription(o1.store, o1.databases, o1.ram, c, id, "none")
            IN  /\ o1.call.result = "RemoteUnavailable"
                /\ o1.store = store
                /\ o1.store[id].status = STATUS_ACTIVE
                /\ o2.call.result = "ok"
                /\ o2.store[id].status = STATUS_IMPORTED
                /\ o2.databases = o1.databases
                /\ Cardinality({k \in DOMAIN o2.databases[c] :
                                   o2.databases[c][k] = store[id].databaseName}) = 1
                /\ o2.call.accepted = {}
                /\ o1.call.accepted \subseteq o2.call.active
                /\ o2.ram = o1.ram

\* C15 witness: a finalize whose status write failed has run: the record is
\* ACTIVE, its shares are accepted and the database exists; the subscriber's
\* next finalize imports it and accepts nothing.
C15_Witness ==
    \E id \in DOMAIN store :
        LET c == store[id].subscriberPrincipal
            o == FinalizeNow(c, id)
        IN  /\ store[id].status = STATUS_ACTIVE
            /\ Len(store[id].ramShares) = MaxShares
            /\ \A a \in ShareArns(id) : ram[a].state = "ACTIVE"
            /\ databases[c] = <<store[id].databaseName>>
            /\ o.call.result = "ok" /\ o.call.accepted = {}
            /\ o.call.active = ShareArns(id)
            /\ o.store[id].status = STATUS_IMPORTED

\* C16: when accept_lf_resource_shares raises, the database finalize created
\* before it stays in the caller's catalog, the store is as it was and
\* mark_subscription_as_imported is not called.
C16_AcceptFailureKeepsDatabase ==
    \A c \in Accounts, id \in DOMAIN store :
        LET o == finalize_subscription(store, databases, ram, c, id, "accept")
        IN  /\ o.call.result = "RemoteUnavailable"
            /\ store[id].databaseName \in Range(o.databases[c])
            /\ o.databases = get_or_create_database(databases, c, store[id].databaseName)
            /\ o.store = store
            /\ o.call.calls = <<"get_subscription", "get_or_create_database",
                                "accept_lf_resource_shares">>
            /\ "mark_subscription_as_imported" \notin Range(o.call.calls)

\* C16 witness: the subscriber's finalize of an ACTIVE record with every share
\* pending, before any import in its account: were the acceptance to raise,
\* the database would be there and the record still ACTIVE.
C16_Witness ==
    \E id \in DOMAIN store :
        LET c == store[id].subscriberPrincipal
            o == finalize_subscription(store, databases, ram, c, id, "accept")
        IN  /\ store[id].status = STATUS_ACTIVE
            /\ databases[c] = <<>>
            /\ \A a \in ShareArns(id) : ram[a].state = "PENDING"
            /\ o.databases[c] = <<store[id].databaseName>>
            /\ o.store[id].status = STATUS_ACTIVE
            /\ o.call.result = "RemoteUnavailable"

\* C17: in every finalize that gets past its share acceptance, the sets
\* accepted, already active and unresolved are pairwise disjoint, their union
\* is the set of the ARNs in the record's ramShares and their sizes sum to
\* the number of shares.
C17_AcceptancePartition ==
    \A c \in Accounts, id \in DOMAIN store, fault \in {"none", "write"} :
        LET o == finalize_subscription(store, databases, ram, c, id, fault)
            arns == {store[id].ramShares[k].arn : k \in DOMAIN store[id].ramShares}
        IN  /\ o.call.accepted \cap o.call.active = {}
            /\ o.call.accepted \cap o.call.not_found = {}
            /\ o.call.active \cap o.call.not_found = {}
            /\ o.call.accepted \cup o.call.active \cup o.call.not_found = arns
            /\ Cardinality(o.call.accepted) + Cardinality(o.call.active)
                  + Cardinality(o.call.not_found) = Len(store[id].ramShares)
            /\ \A a \in o.call.accepted : ram[a].state = "PENDING" /\ o.ram[a].state = "ACTIVE"
            /\ \A a \in o.call.active : ram[a].state = "ACTIVE"
            /\ \A a \in o.call.not_found : ~ShareVisible(ram, c, a)

\* C17 witness: an ACTIVE record with as many shares as can be issued, all
\* pending: the subscriber's finalize accepts them all, another account's
\* finds none of them.
C17_Witness ==
    \E c \in Accounts, id \in DOMAIN store :
        /\ c # store[id].subscriberPrincipal
        /\ store[id].status = STATUS_ACTIVE
        /\ Len(store[id].ramShares) = MaxShares
        /\ FinalizeNow(store[id].subscriberPrincipal, id).call.accepted = ShareArns(id)
        /\ FinalizeNow(c, id).call.not_found = ShareArns(id)

\* No share of record id is held by account c in state rm of the shares.
AllLeft(rm, c, id) ==
    \A a \in ShareArns(id) : ~(rm[a].state = "ACTIVE" /\ rm[a].receiver = c)

\* C18: a delete by the subscriber succeeds; it calls leave_ram_shares, after
\* which the subscriber holds none of the record's shares, and only then the
\* store's delete; the record is still in the store, DELETED, with the reason
\* supplied. In every state a record with a deletionReason is DELETED.
C18_LeaveThenSoftDelete ==
    /\ \A id \in DOMAIN store, reason \in Reasons :
          LET c == store[id].subscriberPrincipal
              o == DeleteNow(c, id, reason)
          IN  /\ o.call.result = "ok"
              /\ 0 < CallIndex(o.call.calls, "leave_ram_shares")
              /\ CallIndex(o.call.calls, "leave_ram_shares")
                    < CallIndex(o.call.calls, "delete_subscription")
              /\ AllLeft(o.ram, c, id)
              /\ Len(o.store) = Len(store)
              /\ o.store[id].status = STATUS_DELETED
              /\ o.store[id].deletionReason = reason
              /\ o.store[id].ramShares = store[id].ramShares
    /\ \A i \in DOMAIN store :
          store[i].deletionReason # NoReason => store[i].status = STATUS_DELETED

\* C18 witness: an ACTIVE record whose shares the subscriber holds (accepted
\* by a finalize that failed at its status write): the subscriber's delete
\* leaves them and marks the record DELETED with its reason.
C18_Witness ==
    \E id \in DOMAIN store :
        LET c == store[id].subscriberPrincipal
            o == DeleteNow(c, id, "wrong product")
        IN  /\ store[id].status = STATUS_ACTIVE
            /\ ShareArns(id) # {}
            /\ \A a \in ShareArns(id) : ram[a].state = "ACTIVE" /\ ram[a].receiver = c
            /\ \A a \in ShareArns(id) : o.ram[a] = NoShare
            /\ o.store[id].status = STATUS_DELETED
            /\ o.store[id].deletionReason = "wrong product"

\* The arns of the first n shares of record id.
FirstShares(id, n) == {store[id].ramShares[k].arn : k \in 1 .. n}

OnlyStatusChanged(st, st2) ==
    /\ Len(st2) = Len(st)
    /\ \A i \in DOMAIN st :
          [st2[i] EXCEPT !.status = st[i].status,
                         !.deletionReason = st[i].deletionReason] = st[i]

\* C20: whatever finalize or delete is called, by whichever account and with
\* whichever failure, the store keeps every record under its id with its
\* ownerAccountId, subscriberPrincipal, databaseName, tables, requestedGrants
\* and ramShares: only status and deletionReason change. No step of any
\* operation removes a record or changes who it belongs to and what it asks.
C20_OnlyStatusAndReasonChange ==
    /\ [](\A c \in Accounts, id \in Ids, reason \in Reasons :
            /\ \A fault \in FinalizeFaults :
                  OnlyStatusChanged(store,
                      finalize_subscription(store, databases, ram, c, id, fault).store)
            /\ \A fault \in DeleteFaults, n \in 0 .. MaxShares :
                  (n = 0 \/ (fault = "leave" /\ id \in DOMAIN store
                               /\ n < Len(store[id].ramShares)))
                  => OnlyStatusChanged(store,
                         delete_subscription(store, ram, c, id, reason, fault, n).store))
    /\ [][\A i \in DOMAIN store :
            /\ i \in DOMAIN store'
            /\ [store'[i] EXCEPT !.status = store[i].status,
                                 !.deletionReason = store[i].deletionReason,
                                 !.ramShares = store[i].ramShares] = store[i]]_vars

\* C20 witness: a record that finalize and delete have both worked on (the
\* database is in the subscriber's catalog, the record is DELETED) with the
\* fields of its request and the share the owner issued, still pending.
C20_Witness ==
    \E id \in DOMAIN store :
        /\ store[id].status = STATUS_DELETED
        /\ store[id].deletionReason \in Reasons
        /\ databases[store[id].subscriberPrincipal] # <<>>
        /\ store[id].ownerAccountId = OwnerAccount
        /\ store[id].databaseName = DatabaseName
        /\ store[id].tables = <<"orders">>
        /\ store[id].requestedGrants = <<"SELECT">>
        /\ Len(store[id].ramShares) = MaxShares
        /\ \E a \in ShareArns(id) : ram[a].state = "PENDING"

====
